---- MODULE Spec2Model ----
(***************************************************************************)
(* Model of the Alpenhorn dialing client (src/dialing.go, with the         *)
(* persistence helpers of src/unnamed/part_000) and of the PKG extraction  *)
(* endpoint (src/pkg/extract.go).                                          *)
(*                                                                         *)
(* The dialing client is driven by coordinator events; each handler is one *)
(* action, and the calls it makes (application callbacks, key wheel,       *)
(* persistence, the reply on the connection) are recorded in order in      *)
(* `trace`, each with whether c.mu was held.                               *)
(***************************************************************************)
EXTENDS Integers, Sequences, FiniteSets, TLC

(***************************************************************************)
(* Bounds                                                                  *)
(***************************************************************************)
MaxRound == 2
MaxHash == 2
NumMixers == 2
MaxCalls == 2
MaxMailboxes == 1
MaxPKGRound == 2
MaxTime == 1
NumThreads == 2

(***************************************************************************)
(* Program constants                                                       *)
(***************************************************************************)
IntentMax == 2
SizeToken == 32
SizeUint32 == 4
SizeKey == 32
SizeIdentity == 64
OnionOverhead == 48

Rounds == 1..MaxRound
Hashes == 1..MaxHash
Friends == {"alice", "bob"}
Username == "me"
CallIds == 1..MaxCalls

NoRound == [Round |-> 0]
NoCall == 0

(***************************************************************************)
(* Configurations                                                          *)
(***************************************************************************)
MixerKey(h, i) == <<"mixer", h, i>>

SignedConfig(h) ==
  [id |-> h,
   Inner |-> [MixServers |-> [i \in 1..NumMixers |-> [Key |-> MixerKey(h, i)]],
              CDNServer |-> <<"cdn", h>>]]

Hash(cfg) == cfg.id

dialingRoundState(round, cfg) ==
  [Round |-> round, Config |-> cfg.Inner, ConfigParent |-> cfg]

(***************************************************************************)
(* Signatures: a signature is the pair of the signing key and the message; *)
(* anything else is a forgery.                                             *)
(***************************************************************************)
Sign(key, msg) == [key |-> key, msg |-> msg]
Forged == [key |-> <<"none">>, msg |-> <<>>]
Verify(key, msg, sig) == sig = Sign(key, msg)

(***************************************************************************)
(* Mix settings and messages                                               *)
(***************************************************************************)
\* RawServiceData is either undecodable (NumMailboxes 0 here) or carries NumMailboxes;
\* the settings carry one onion key per mixer of the chain
MixSettings(round, numMailboxes) ==
  [Round |-> round,
   RawServiceData |-> [ok |-> numMailboxes > 0, NumMailboxes |-> numMailboxes],
   OnionKeys |-> [i \in 1..NumMixers |-> <<"onionkey", i>>]]

SigningMessage(settings) == <<"MixSettings", settings>>

ZeroToken == [i \in 1..SizeToken |-> 0]

BE32(n) == [i \in 1..SizeUint32 |-> IF i = SizeUint32 THEN n % 256 ELSE 0]

UsernameHash(name) ==
  CASE name = "alice" -> 7
    [] name = "bob" -> 12
    [] OTHER -> 5

usernameToMailbox(name, numMailboxes) == (UsernameHash(name) % numMailboxes) + 1

NewMixMessage == [Mailbox |-> 0, Token |-> ZeroToken]

mustMarshal(m) == BE32(m.Mailbox) \o m.Token

Seal(msg, nonce, keys) ==
  [len |-> Len(msg) + Len(keys) * OnionOverhead, nonce |-> nonce, plain |-> msg]

ForwardNonce(round) == <<"fwd", round>>

(***************************************************************************)
(* Outgoing calls                                                          *)
(***************************************************************************)
CallUsername(id) == IF id % 2 = 1 THEN "alice" ELSE "bob"
CallIntent(id) == id % IntentMax

computeKeysToken(id, sentRound) ==
  [i \in 1..SizeToken |-> IF i = 1 THEN 1 + CallIntent(id)
                          ELSE IF i = 2 THEN UsernameHash(CallUsername(id))
                          ELSE sentRound]

(***************************************************************************)
(* Key wheel: every friend's wheel stands at a round; keys of earlier      *)
(* rounds are gone.                                                        *)
(***************************************************************************)
DialToken(from, intent, round) == <<"token", from, intent, round>>

\* the orders in which the wheel may return the friends it has keys for
UserOrders(w, round) ==
  LET users == {g \in Friends : w[g] <= round} IN
  {o \in [1..Cardinality(users) -> users] : \A i, j \in DOMAIN o : i # j => o[i] # o[j]}

\* the tokens of every friend the wheel has keys for, in the order `order`
IncomingDialTokens(w, order, round, numIntents) ==
  [k \in 1..Len(order) |->
     [FromUsername |-> order[k],
      Tokens |-> [i \in 0..(numIntents - 1) |-> DialToken(order[k], i, round)]]]

SessionKey(w, from, round) ==
  IF w[from] <= round THEN <<"sessionkey", from, round>> ELSE <<"nil">>

EraseKeys(w, round) ==
  [f \in Friends |-> IF w[f] <= round THEN round + 1 ELSE w[f]]

AllTokens(round) == {DialToken(f, i, round) : f \in Friends, i \in 0..(IntentMax - 1)}


(***************************************************************************)
(* PKG: identities, requests and signing preimages (src/pkg/extract.go)    *)
(***************************************************************************)
Servers == {1, 2}
Threads == 1..NumThreads
PKGRounds == 1..MaxPKGRound

Bytes(n, b) == [i \in 1..n |-> b]

\* srv.publicKey
ServerPublicKey(s) == Bytes(SizeKey, 100 + s)

\* the bytes of a username
UsernameBytes(name) ==
  CASE name = "alice" -> <<97, 108, 105, 99, 101>>
    [] name = "ghost" -> <<103, 104, 111, 115, 116>>
    [] name = "mallory" -> <<109, 97, 108, 108, 111, 114, 121>>
    [] OTHER -> <<66, 97, 100, 32, 78, 97, 109, 101>>

\* a username is valid when it is made of lower-case letters and fits an identity
ValidUsername(name) ==
  LET b == UsernameBytes(name) IN
  Len(b) > 0 /\ Len(b) <= SizeIdentity /\ \A i \in 1..Len(b) : b[i] \in 97..122

\* the identity of a username: its bytes, zero padded
ValidUsernameToIdentity(name) ==
  LET b == UsernameBytes(name) IN
  [i \in 1..SizeIdentity |-> IF i <= Len(b) THEN b[i] ELSE 0]

\* the registration records of every server's store: the login key by username
LoginKey(name) == Bytes(SizeKey, UsernameBytes(name)[1])

Registered(s, name) == name = "alice"

\* the users the stores hold lastExtraction records for
StoreUsers == {"alice", "ghost"}

Nil == <<>>

NoRecord == [Round |-> 0, UnixTime |-> 0]

ExtractArgsPrefix == <<69, 120, 116, 114, 97, 99, 116, 65, 114, 103, 115>>
ExtractReplyPrefix == <<69, 120, 116, 114, 97, 99, 116, 82, 101, 112, 108, 121>>

\* extractArgs.msg; a nil ReturnKey is dereferenced
extractArgsMsg_unbound(a) ==
  IF a.ReturnKey = Nil THEN "panic"
  ELSE ExtractArgsPrefix \o BE32(a.Round)
       \o ValidUsernameToIdentity(a.Username) \o a.ReturnKey \o a.UserLongTermKey

extractArgsMsg(a) ==
  IF a.ReturnKey = Nil THEN "panic"
  ELSE ExtractArgsPrefix \o a.ServerSigningKey \o BE32(a.Round)
       \o ValidUsernameToIdentity(a.Username) \o a.ReturnKey \o a.UserLongTermKey

\* extractArgs.Sign
extractArgsSign(a, loginKey) == [a EXCEPT !.Signature = Sign(loginKey, extractArgsMsg(a))]

\* extractArgs.Verify
extractArgsVerify(a, loginKey) == Verify(loginKey, extractArgsMsg(a), a.Signature)

\* extractReply.msg
extractReplyMsg(r) ==
  ExtractReplyPrefix \o BE32(r.Round) \o ValidUsernameToIdentity(r.Username)
  \o r.EncryptedPrivateKey

\* Attestation.Marshal
AttestationMarshal(a) == a.AttestKey \o a.UserIdentity \o a.UserLongTermKey

\* the keys of a round of a server
RoundState(s, round) ==
  [masterPrivateKey |-> <<"msk", s, round>>,
   blsPublicKey |-> <<200 + s, round>>,
   blsPrivateKey |-> <<"blssk", s, round>>]

\* the body a client posts: the request it signed for the server with key
\* signedFor, without the ServerSigningKey field; a request without ReturnKey
\* cannot be signed and carries a forged signature
WireRequest(round, name, returnKey, ltkLen, signer, signedFor) ==
  LET a == [Round |-> round, Username |-> name, ReturnKey |-> returnKey,
            UserLongTermKey |-> Bytes(ltkLen, 3), ServerSigningKey |-> signedFor,
            Signature |-> Forged]
      signed == IF returnKey = Nil \/ signer = "nobody" THEN a
                ELSE extractArgsSign(a, LoginKey(signer))
  IN [signed EXCEPT !.ServerSigningKey = Nil]

WireRequests ==
  {WireRequest(round, name, rk, ltkLen, signer, ServerPublicKey(s)) :
     round \in 1..(MaxPKGRound + 1), name \in {"alice", "ghost", "Bad Name"},
     rk \in {Nil, Bytes(SizeKey, 2)}, ltkLen \in {SizeKey, SizeKey - 1},
     signer \in {"alice", "mallory", "nobody"}, s \in Servers}

\* the requests of a registered user to the PKG it signed them for
GoodRequests ==
  {WireRequest(round, "alice", Bytes(SizeKey, 2), SizeKey, "alice", ServerPublicKey(1)) :
     round \in PKGRounds}

IdleThread == [pc |-> "idle"]

(***************************************************************************)
(* State                                                                   *)
(***************************************************************************)
VARIABLES
  dialingRounds,      \* c.dialingRounds: round -> dialingRoundState, NoRound if absent
  dialingConfig,      \* c.dialingConfig: the cached signed config
  dialingConfigHash,  \* c.dialingConfigHash
  outgoingCalls,      \* c.outgoingCalls: queue of call ids
  sentRound,          \* call.sentRound of every call object
  nextCall,           \* number of calls the application has created
  lastDialingRound,   \* c.lastDialingRound
  wheel,              \* c.wheel
  wheelFile,          \* contents of the file at KeywheelPersistPath
  clientPaths,        \* which of ClientPersistPath / KeywheelPersistPath are set
  roundPhase,         \* how far the client has taken every round: its entry recorded,
                      \* its onion sent, its mailbox scanned
  crashed,            \* the process panicked
  last,               \* the event handled last
  trace,              \* what the last handler did, in order
  pkgThreads,         \* PKG: the extraction request every server thread is serving
  pkgDB,              \* PKG: srv.db of every server, the lastExtraction records
  now                 \* PKG: the clock read by time.Now()

dvars == <<dialingRounds, dialingConfig, dialingConfigHash, outgoingCalls, sentRound,
           nextCall, lastDialingRound, wheel, wheelFile, clientPaths, roundPhase, crashed,
           last, trace>>

pvars == <<pkgThreads, pkgDB, now>>

vars == <<dvars, pvars>>

Ev(op, arg, locked) == [op |-> op, arg |-> arg, locked |-> locked]

Ops(tr) == [i \in 1..Len(tr) |-> tr[i].op]

Has(tr, op) == \E i \in 1..Len(tr) : tr[i].op = op

Count(tr, op) == Cardinality({i \in 1..Len(tr) : tr[i].op = op})

PKGInit ==
  /\ pkgThreads = [t \in Threads |-> IdleThread]
  /\ pkgDB = [s \in Servers |-> [name \in StoreUsers |-> NoRecord]]
  /\ now = 0

\* the phase of every round of a client that has only recorded round entries
PhaseOf(rounds) ==
  [r \in Rounds |-> IF rounds[r] = NoRound THEN "Unborn" ELSE "Configured"]

\* the phases after a handler has served an event for `round`: before and
\* after are the round's entry in c.dialingRounds, sent says that the handler
\* sent the round's onion, scanned that it scanned the round's mailbox and
\* erased the round's keys
PhaseAfter(phase, round, before, after, sent, scanned) ==
  IF before = NoRound /\ after # NoRound THEN [phase EXCEPT ![round] = "Configured"]
  ELSE IF sent THEN [phase EXCEPT ![round] = "Submitted"]
  ELSE IF scanned THEN [phase EXCEPT ![round] = "Scanned"]
  ELSE phase

\* no handler is running and none has left a record: the connection's serve
\* loop is waiting for the next event
NoEvent == [ev |-> "idle", round |-> 0]

Idle == ~crashed /\ last = NoEvent

(***************************************************************************)
(* Persistence (src/unnamed/part_000)                                      *)
(***************************************************************************)
\* persistLocked: the calls it makes, in order
persistLockedTrace(paths) ==
  (IF paths.client THEN <<Ev("persistClient", <<>>, TRUE)>> ELSE <<>>) \o
  (IF paths.keywheel THEN <<Ev("persistKeywheel", <<>>, TRUE)>> ELSE <<>>)

\* persistLocked: whether it returns an error
persistLockedFails(paths, clientOK, wheelOK) ==
  (paths.client /\ ~clientOK) \/ (paths.keywheel /\ ~wheelOK)

\* persistLocked: the keywheel file afterwards
persistLockedWheelFile(paths, wheelOK, w, file) ==
  IF paths.keywheel /\ wheelOK THEN w ELSE file

(***************************************************************************)
(* newround                                                                *)
(***************************************************************************)
\* FetchAndVerifyChain: the verified chain from the requested tip back to
\* the cached config, newest first
FetchAndVerifyChain(cached, hash) == <<SignedConfig(hash), cached>>

\* the check newDialingRound makes on a round it already knows
announcedDifferent_cached(st, hash) == dialingConfigHash # hash

announcedDifferent(st, hash) == Hash(st.ConfigParent) # hash

\* the common case of newDialingRound: the announced hash is the cached one
commonCase_never(hash, cachedHash) == FALSE

commonCase(hash, cachedHash) == hash = cachedHash

\* what newDialingRound does, in order, once the chain is fetched; failed
\* says that persistLocked returned an error
fetchedSteps_recordFirst(round, hash, paths, failed) ==
  <<Ev("FetchAndVerifyChain", hash, TRUE)>>
  \o (IF failed THEN <<>> ELSE <<Ev("record", round, TRUE)>>)
  \o <<Ev("NewConfig", hash, TRUE), Ev("adopt", hash, TRUE)>>
  \o persistLockedTrace(paths)
  \o (IF failed THEN <<Ev("panic", "failed to persist state", TRUE)>> ELSE <<>>)

fetchedSteps(round, hash, paths, failed) ==
  <<Ev("FetchAndVerifyChain", hash, TRUE), Ev("NewConfig", hash, TRUE),
    Ev("adopt", hash, TRUE)>>
  \o persistLockedTrace(paths)
  \o (IF failed THEN <<Ev("panic", "failed to persist state", TRUE)>>
      ELSE <<Ev("record", round, TRUE)>>)

newDialingRound(round, hash, fetchOK, clientOK, wheelOK) ==
  LET st == dialingRounds[round]
      ok == st # NoRound
      configs == FetchAndVerifyChain(dialingConfig, hash)
      newConfig == configs[1]
      failed == persistLockedFails(clientPaths, clientOK, wheelOK)
  IN
  /\ Idle
  /\ UNCHANGED pvars
  /\ UNCHANGED <<outgoingCalls, sentRound, nextCall, lastDialingRound, wheel, clientPaths>>
  /\ IF ok THEN
       \* duplicate announcement of a known round
       /\ trace' = IF announcedDifferent(st, hash)
                   THEN <<Ev("Error", "coordinator announced different configs", TRUE)>>
                   ELSE <<>>
       /\ last' = [ev |-> "newround", round |-> round, hash |-> hash,
                   outcome |-> IF announcedDifferent(st, hash) THEN "error" ELSE "duplicate"]
       /\ UNCHANGED <<dialingRounds, dialingConfig, dialingConfigHash, wheelFile, crashed>>
     ELSE IF commonCase(hash, dialingConfigHash) THEN
       \* common case
       /\ dialingRounds' = [dialingRounds EXCEPT ![round] = dialingRoundState(round, dialingConfig)]
       /\ trace' = <<>>
       /\ last' = [ev |-> "newround", round |-> round, hash |-> hash, outcome |-> "cached"]
       /\ UNCHANGED <<dialingConfig, dialingConfigHash, wheelFile, crashed>>
     ELSE IF ~fetchOK THEN
       /\ trace' = <<Ev("FetchAndVerifyChain", hash, TRUE),
                     Ev("Error", "fetching dialing config", TRUE)>>
       /\ last' = [ev |-> "newround", round |-> round, hash |-> hash, outcome |-> "fetcherror",
                   fetchOK |-> FALSE]
       /\ UNCHANGED <<dialingRounds, dialingConfig, dialingConfigHash, wheelFile, crashed>>
     ELSE
       /\ dialingConfig' = newConfig
       /\ dialingConfigHash' = hash
       /\ wheelFile' = persistLockedWheelFile(clientPaths, wheelOK, wheel, wheelFile)
       /\ crashed' = failed
       /\ dialingRounds' = IF failed THEN dialingRounds
                           ELSE [dialingRounds EXCEPT ![round] = dialingRoundState(round, newConfig)]
       /\ trace' = fetchedSteps(round, hash, clientPaths, failed)
       /\ last' = [ev |-> "newround", round |-> round, hash |-> hash,
                   outcome |-> IF failed THEN "panic" ELSE "fetched", fetchOK |-> TRUE]
  /\ roundPhase' = PhaseAfter(roundPhase, round, dialingRounds[round], dialingRounds'[round],
                              FALSE, FALSE)

NewRound ==
  \E round \in Rounds, hash \in Hashes, fetchOK \in BOOLEAN, clientOK \in BOOLEAN, wheelOK \in BOOLEAN :
    newDialingRound(round, hash, fetchOK, clientOK, wheelOK)

(***************************************************************************)
(* The application enqueues an outgoing call                               *)
(***************************************************************************)
Call ==
  /\ Idle
  /\ UNCHANGED pvars
  /\ nextCall < MaxCalls
  /\ nextCall' = nextCall + 1
  /\ outgoingCalls' = Append(outgoingCalls, nextCall + 1)
  /\ UNCHANGED <<last, trace>>
  /\ UNCHANGED <<dialingRounds, dialingConfig, dialingConfigHash, sentRound, lastDialingRound,
                 wheel, wheelFile, clientPaths, roundPhase, crashed>>


(***************************************************************************)
(* mix                                                                     *)
(***************************************************************************)
\* the signature check loop of sendDialingOnion: "ok" when every mixer's
\* signature verifies, "fail" at the first that does not, "panic" when the
\* index runs past the end of MixSignatures
RECURSIVE VerifyMixers_firstOnly(_, _, _, _)
VerifyMixers_firstOnly(mixers, settingsMsg, sigs, i) ==
  IF i > Len(mixers) \/ i > 1 THEN "ok"
  ELSE IF i > Len(sigs) THEN "panic"
  ELSE IF ~Verify(mixers[i].Key, settingsMsg, sigs[i]) THEN "fail"
  ELSE VerifyMixers_firstOnly(mixers, settingsMsg, sigs, i + 1)

RECURSIVE VerifyMixers(_, _, _, _)
VerifyMixers(mixers, settingsMsg, sigs, i) ==
  IF i > Len(mixers) THEN "ok"
  ELSE IF i > Len(sigs) THEN "panic"
  ELSE IF ~Verify(mixers[i].Key, settingsMsg, sigs[i]) THEN "fail"
  ELSE VerifyMixers(mixers, settingsMsg, sigs, i + 1)

\* nextOutgoingCall: the call at the head of the queue, NoCall if none
nextOutgoingCall_newest(queue) == IF Len(queue) > 0 THEN queue[Len(queue)] ELSE NoCall

nextOutgoingCall(queue) == IF Len(queue) > 0 THEN queue[1] ELSE NoCall

\* nextOutgoingCall: the queue it leaves
nextOutgoingCallQueue(queue) == IF Len(queue) > 0 THEN Tail(queue) ELSE queue

\* the mix message sendDialingOnion builds for the dequeued call
buildMixMessage_shortCover(call, round, numMailboxes) ==
  IF call # NoCall
  THEN [NewMixMessage EXCEPT !.Token = computeKeysToken(call, round),
                             !.Mailbox = usernameToMailbox(CallUsername(call), numMailboxes)]
  ELSE [Mailbox |-> 0, Token |-> <<>>]

buildMixMessage(call, round, numMailboxes) ==
  IF call # NoCall
  THEN [NewMixMessage EXCEPT !.Token = computeKeysToken(call, round),
                             !.Mailbox = usernameToMailbox(CallUsername(call), numMailboxes)]
  ELSE [NewMixMessage EXCEPT !.Mailbox = 0]

\* st, ok := c.dialingRounds[round]: the entry of the round, NoRound if absent
roundLookup_fallback(rounds, round) ==
  IF rounds[round] = NoRound THEN dialingRoundState(round, dialingConfig) ELSE rounds[round]

roundLookup(rounds, round) == rounds[round]

sendDialingOnion(v) ==
  LET round == v.MixSettings.Round
      st == roundLookup(dialingRounds, round)
      ok == st # NoRound
      serviceData == v.MixSettings.RawServiceData
      settingsMsg == SigningMessage(v.MixSettings)
      verified == VerifyMixers(st.Config.MixServers, settingsMsg, v.MixSignatures, 1)
      call == nextOutgoingCall(outgoingCalls)
      mixMessage == buildMixMessage(call, round, serviceData.NumMailboxes)
      onion == Seal(mustMarshal(mixMessage), ForwardNonce(round), v.MixSettings.OnionKeys)
      omsg == [Round |-> round, Onion |-> onion]
      lst(outcome, c) == [ev |-> "mix", round |-> round, v |-> v, outcome |-> outcome, call |-> c]
  IN
  /\ Idle
  /\ UNCHANGED pvars
  /\ UNCHANGED <<dialingRounds, dialingConfig, dialingConfigHash, nextCall, wheel, wheelFile,
                 clientPaths>>
  /\ IF ~ok THEN
       /\ trace' = <<Ev("Error", "round not configured", FALSE)>>
       /\ last' = lst("notconfigured", NoCall)
       /\ UNCHANGED <<outgoingCalls, sentRound, lastDialingRound, crashed>>
     ELSE IF ~serviceData.ok THEN
       /\ trace' = <<Ev("Error", "error parsing service data", FALSE)>>
       /\ last' = lst("parseerror", NoCall)
       /\ UNCHANGED <<outgoingCalls, sentRound, lastDialingRound, crashed>>
     ELSE IF verified = "fail" THEN
       /\ trace' = <<Ev("Error", "failed to verify mixnet settings", FALSE)>>
       /\ last' = lst("verifyerror", NoCall)
       /\ UNCHANGED <<outgoingCalls, sentRound, lastDialingRound, crashed>>
     ELSE IF verified = "panic" THEN
       /\ trace' = <<Ev("panic", "index out of range", FALSE)>>
       /\ last' = lst("panic", NoCall)
       /\ crashed' = TRUE
       /\ UNCHANGED <<outgoingCalls, sentRound, lastDialingRound>>
     ELSE
       /\ lastDialingRound' = round
       /\ outgoingCalls' = nextOutgoingCallQueue(outgoingCalls)
       /\ sentRound' = IF call # NoCall THEN [sentRound EXCEPT ![call] = round] ELSE sentRound
       /\ trace' = <<Ev("dequeue", call, TRUE)>>
                   \o (IF call # NoCall
                       THEN <<Ev("sentRound", call, TRUE), Ev("SendingCall", call, FALSE)>>
                       ELSE <<>>)
                   \o <<Ev("Send", omsg, FALSE)>>
       /\ last' = lst("onion", call)
       /\ UNCHANGED crashed
  /\ roundPhase' = PhaseAfter(roundPhase, round, st, st, Has(trace', "Send"), FALSE)

\* the signature a coordinator may attach at position i: the one the i-th mixer
\* of the chain made over the settings (good), or else the signature of the
\* next mixer of the chain over the same settings; past the end of the chain,
\* the first mixer's signature or a forgery
MixSignatureChoice(round, settings, i, good) ==
  LET cfg == IF dialingRounds[round] # NoRound THEN dialingRounds[round].ConfigParent
             ELSE dialingConfig
      keyOf(j) == cfg.Inner.MixServers[j].Key
  IN IF i > NumMixers THEN (IF good THEN Sign(keyOf(1), SigningMessage(settings)) ELSE Forged)
     ELSE IF good THEN Sign(keyOf(i), SigningMessage(settings))
     ELSE Sign(keyOf((i % NumMixers) + 1), SigningMessage(settings))

Mix ==
  \E round \in Rounds, numMailboxes \in 0..MaxMailboxes, n \in 0..(NumMixers + 1) :
    LET settings == MixSettings(round, numMailboxes) IN
    \E good \in (IF numMailboxes = 0 THEN {[i \in 1..n |-> TRUE]} ELSE [1..n -> BOOLEAN]) :
      sendDialingOnion([MixSettings |-> settings,
                        MixSignatures |-> [i \in 1..n |-> MixSignatureChoice(round, settings, i, good[i])]])


(***************************************************************************)
(* mailbox                                                                 *)
(***************************************************************************)
\* the inner loop of scanBloomFilter over one user's tokens, from intent i on
RECURSIVE scanUser_break(_, _, _, _, _)
scanUser_break(w, round, user, positive, i) ==
  IF i > IntentMax - 1 THEN <<>>
  ELSE IF user.Tokens[i] \in positive
       THEN <<Ev("SessionKey", <<user.FromUsername, round>>, FALSE),
              Ev("ReceivedCall", [Username |-> user.FromUsername, Intent |-> i,
                                  SessionKey |-> SessionKey(w, user.FromUsername, round)], FALSE)>>
       ELSE scanUser_break(w, round, user, positive, i + 1)

RECURSIVE scanUser(_, _, _, _, _)
scanUser(w, round, user, positive, i) ==
  IF i > IntentMax - 1 THEN <<>>
  ELSE (IF user.Tokens[i] \in positive
        THEN <<Ev("SessionKey", <<user.FromUsername, round>>, FALSE),
               Ev("ReceivedCall", [Username |-> user.FromUsername, Intent |-> i,
                                   SessionKey |-> SessionKey(w, user.FromUsername, round)], FALSE)>>
        ELSE <<>>)
       \o scanUser(w, round, user, positive, i + 1)

\* the outer loop of scanBloomFilter, from the k-th user on
RECURSIVE scanTokens(_, _, _, _, _)
scanTokens(w, round, allTokens, positive, k) ==
  IF k > Len(allTokens) THEN <<>>
  ELSE scanUser(w, round, allTokens[k], positive, 0)
       \o scanTokens(w, round, allTokens, positive, k + 1)

\* the wheel once the scan is over
wheelAfterScan_noErase(w, round) == w

wheelAfterScan(w, round) == EraseKeys(w, round)

\* persistKeywheel succeeds when the file at KeywheelPersistPath can be written
persistKeywheelOK(paths, ioOK) == paths.keywheel /\ ioOK

\* io: what the download and the decoding do ("fetcherr", "ok", "decodeerr",
\* or "decodepanic" when testing the filter that failed to decode panics);
\* positive: the tokens the filter tests positive for; order: the order in
\* which the wheel returns the users; ioOK: whether the keywheel file can be
\* written
scanBloomFilter(v, io, positive, order, ioOK) ==
  LET st == dialingRounds[v.Round]
      ok == st # NoRound
      mailboxID == usernameToMailbox(Username, v.NumMailboxes)
      allTokens == IncomingDialTokens(wheel, order, v.Round, IntentMax)
      calls == scanTokens(wheel, v.Round, allTokens, positive, 1)
      erased == wheelAfterScan(wheel, v.Round)
      written == persistKeywheelOK(clientPaths, ioOK)
      pre == <<Ev("fetchMailbox", <<st.Config.CDNServer, mailboxID>>, FALSE)>>
             \o (IF io = "ok" THEN <<>> ELSE <<Ev("Error", "decoding bloom filter", FALSE)>>)
             \o <<Ev("IncomingDialTokens", v.Round, FALSE)>>
      lst(outcome) == [ev |-> "mailbox", round |-> v.Round, outcome |-> outcome,
                       io |-> io, positive |-> positive]
  IN
  /\ Idle
  /\ UNCHANGED pvars
  /\ UNCHANGED <<dialingRounds, dialingConfig, dialingConfigHash, outgoingCalls, sentRound,
                 nextCall, lastDialingRound, clientPaths>>
  /\ IF ~ok THEN
       /\ trace' = <<>>
       /\ last' = lst("dropped")
       /\ UNCHANGED <<wheel, wheelFile, crashed>>
     ELSE IF io = "fetcherr" THEN
       /\ trace' = <<Ev("fetchMailbox", <<st.Config.CDNServer, mailboxID>>, FALSE),
                     Ev("Error", "fetching mailbox", FALSE)>>
       /\ last' = lst("fetcherror")
       /\ UNCHANGED <<wheel, wheelFile, crashed>>
     ELSE IF io = "decodepanic" /\ Len(allTokens) > 0 THEN
       \* Test on a filter that was never decoded
       /\ trace' = pre \o <<Ev("panic", "bloom filter test", FALSE)>>
       /\ last' = lst("panic")
       /\ crashed' = TRUE
       /\ UNCHANGED <<wheel, wheelFile>>
     ELSE
       /\ wheel' = erased
       /\ wheelFile' = IF written THEN erased ELSE wheelFile
       /\ crashed' = ~written
       /\ trace' = pre \o calls
                   \o <<Ev("EraseKeys", v.Round, FALSE), Ev("persistKeywheel", <<>>, FALSE)>>
                   \o (IF written THEN <<>> ELSE <<Ev("panic", "persistKeywheel", FALSE)>>)
       /\ last' = lst(IF written THEN "scanned" ELSE "panic")
  /\ roundPhase' = PhaseAfter(roundPhase, v.Round, st, st, FALSE, Has(trace', "EraseKeys"))

MailboxIO == {"fetcherr", "ok", "decodeerr", "decodepanic"}

Mailbox ==
  \E round \in Rounds, numMailboxes \in 1..MaxMailboxes, io \in MailboxIO :
    \E positive \in (IF io = "fetcherr" THEN {{}} ELSE SUBSET AllTokens(round)),
       order \in UserOrders(wheel, round),
       ioOK \in (IF io = "fetcherr" THEN {TRUE} ELSE BOOLEAN) :
      scanBloomFilter([Round |-> round, NumMailboxes |-> numMailboxes], io, positive, order, ioOK)

(***************************************************************************)
(* The serve loop of the connection: the handler has returned, the next    *)
(* event is awaited.  A panic ends the process.                            *)
(***************************************************************************)
Serve ==
  /\ ~crashed
  /\ last # NoEvent
  /\ last' = NoEvent
  /\ trace' = <<>>
  /\ UNCHANGED pvars
  /\ UNCHANGED <<dialingRounds, dialingConfig, dialingConfigHash, outgoingCalls, sentRound,
                 nextCall, lastDialingRound, wheel, wheelFile, clientPaths, roundPhase, crashed>>

(***************************************************************************)
(* Specifications of the dialing client.  newround changes the round map   *)
(* and the cached config and leaves the call queue and the wheel alone;    *)
(* mix changes the queue, the calls and lastDialingRound and only reads    *)
(* the round map; mailbox changes the wheel and only reads the round map.  *)
(* Each handler is explored from the round maps newround can leave.        *)
(***************************************************************************)
\* the round maps in which some rounds were announced with the cached config
ConfiguredRounds ==
  {[r \in Rounds |-> IF r \in S THEN dialingRoundState(r, SignedConfig(1)) ELSE NoRound] :
     S \in SUBSET Rounds}

InitRound ==
  /\ dialingRounds = [r \in Rounds |-> NoRound]
  /\ roundPhase = PhaseOf(dialingRounds)
  /\ dialingConfig = SignedConfig(1)
  /\ dialingConfigHash = Hash(SignedConfig(1))
  /\ outgoingCalls = <<>>
  /\ sentRound = [c \in CallIds |-> 0]
  /\ nextCall = 0
  /\ lastDialingRound = 0
  /\ wheel = [f \in Friends |-> 1]
  /\ wheelFile = wheel
  /\ clientPaths \in [client : BOOLEAN, keywheel : BOOLEAN]
  /\ crashed = FALSE
  /\ last = NoEvent
  /\ trace = <<>>
  /\ PKGInit

NextRound == NewRound \/ Serve

SpecRound == InitRound /\ [][NextRound]_vars

InitMix ==
  /\ dialingRounds \in ConfiguredRounds
  /\ roundPhase = PhaseOf(dialingRounds)
  /\ dialingConfig = SignedConfig(1)
  /\ dialingConfigHash = Hash(SignedConfig(1))
  /\ outgoingCalls = <<>>
  /\ sentRound = [c \in CallIds |-> 0]
  /\ nextCall = 0
  /\ lastDialingRound = 0
  /\ wheel = [f \in Friends |-> 1]
  /\ wheelFile = wheel
  /\ clientPaths = [client |-> TRUE, keywheel |-> TRUE]
  /\ crashed = FALSE
  /\ last = NoEvent
  /\ trace = <<>>
  /\ PKGInit

NextMix == Call \/ Mix \/ Serve

SpecMix == InitMix /\ [][NextMix]_vars

InitScan ==
  /\ dialingRounds \in ConfiguredRounds
  /\ roundPhase = PhaseOf(dialingRounds)
  /\ dialingConfig = SignedConfig(1)
  /\ dialingConfigHash = Hash(SignedConfig(1))
  /\ outgoingCalls = <<>>
  /\ sentRound = [c \in CallIds |-> 0]
  /\ nextCall = 0
  /\ lastDialingRound = 0
  /\ wheel \in [Friends -> 1..2]
  /\ wheelFile = wheel
  /\ clientPaths \in {[client |-> TRUE, keywheel |-> TRUE], [client |-> TRUE, keywheel |-> FALSE]}
  /\ crashed = FALSE
  /\ last = NoEvent
  /\ trace = <<>>
  /\ PKGInit

NextScan == Mailbox \/ Serve

SpecScan == InitScan /\ [][NextScan]_vars

\* the whole client: every event of the dialing connection, from the start
InitClient ==
  /\ dialingRounds = [r \in Rounds |-> NoRound]
  /\ roundPhase = PhaseOf(dialingRounds)
  /\ dialingConfig = SignedConfig(1)
  /\ dialingConfigHash = Hash(SignedConfig(1))
  /\ outgoingCalls = <<>>
  /\ sentRound = [c \in CallIds |-> 0]
  /\ nextCall = 0
  /\ lastDialingRound = 0
  /\ wheel = [f \in Friends |-> 1]
  /\ wheelFile = wheel
  /\ clientPaths = [client |-> TRUE, keywheel |-> TRUE]
  /\ crashed = FALSE
  /\ last = NoEvent
  /\ trace = <<>>
  /\ PKGInit

NextClient == NewRound \/ Call \/ Mix \/ Mailbox \/ Serve

SpecClient == InitClient /\ [][NextClient]_vars

(***************************************************************************)
(* Properties of the dialing client                                        *)
(***************************************************************************)
\* the arguments of the calls of kind op the last handler made
Args(tr, op) == {tr[i].arg : i \in {j \in 1..Len(tr) : tr[j].op = op}}

\* no dial tokens are left in wheel w for the round
NoTokens(w, round) ==
  \A o \in UserOrders(w, round) : IncomingDialTokens(w, o, round, IntentMax) = <<>>

\* C1: a newround for a round that is already recorded, announcing a hash
\* other than that of the recorded ConfigParent, notifies the error handler
\* and leaves the round map, the cached config and the cached hash as they were.
C1_DuplicateNewRound ==
  [][(/\ last'.ev = "newround"
      /\ last = NoEvent
      /\ dialingRounds[last'.round] # NoRound
      /\ last'.hash # Hash(dialingRounds[last'.round].ConfigParent))
     => (/\ Has(trace', "Error")
         /\ dialingRounds' = dialingRounds
         /\ dialingConfig' = dialingConfig
         /\ dialingConfigHash' = dialingConfigHash)]_vars

\* C1 witness: a second newround has announced, for a recorded round, the hash
\* the client caches now, which is not the hash recorded for the round.
C1_Witness ==
  /\ last.ev = "newround"
  /\ dialingRounds[last.round] # NoRound
  /\ last.hash # Hash(dialingRounds[last.round].ConfigParent)
  /\ last.hash = dialingConfigHash
  /\ Has(trace, "Error")

\* some signature that has a mixer of the configured chain fails to verify
SomeSignatureFails(st, v) ==
  \E i \in 1..Len(st.Config.MixServers) :
    /\ i <= Len(v.MixSignatures)
    /\ ~Verify(st.Config.MixServers[i].Key, SigningMessage(v.MixSettings), v.MixSignatures[i])

\* C2: a mix event on a configured round in which some MixSignatures[i] does
\* not verify under the key of the i-th mixer of the chain sends no onion and
\* reports an application error.
C2_BadSignatureNoOnion ==
  (/\ last.ev = "mix"
   /\ dialingRounds[last.round] # NoRound
   /\ SomeSignatureFails(dialingRounds[last.round], last.v))
  => (~Has(trace, "Send") /\ Has(trace, "Error"))

\* C2 witness: the first signature verifies, the second does not, and the
\* service data parsed.
C2_Witness ==
  /\ last.ev = "mix"
  /\ dialingRounds[last.round] # NoRound
  /\ last.v.MixSettings.RawServiceData.ok
  /\ Len(last.v.MixSignatures) = NumMixers
  /\ LET st == dialingRounds[last.round] IN
       /\ Verify(st.Config.MixServers[1].Key, SigningMessage(last.v.MixSettings),
                 last.v.MixSignatures[1])
       /\ ~Verify(st.Config.MixServers[2].Key, SigningMessage(last.v.MixSettings),
                  last.v.MixSignatures[2])
  /\ ~Has(trace, "Send")

\* C3, as claimed: whenever the mailbox handler for a round has returned
\* without crashing, the wheel holds no tokens for the round and has been
\* persisted.
C3_Original ==
  (last.ev = "mailbox" /\ ~crashed)
  => (NoTokens(wheel, last.round) /\ wheelFile = wheel)

\* C3, amended: whenever the mailbox handler has returned without crashing for
\* a round that has recorded state and whose mailbox download succeeded, the
\* wheel holds no tokens for the round and has been persisted; and a round
\* without tokens never has tokens again.
C3_ErasedAfterScan ==
  [][/\ (/\ last'.ev = "mailbox"
         /\ last = NoEvent
         /\ ~crashed'
         /\ dialingRounds[last'.round] # NoRound
         /\ last'.io # "fetcherr")
        => (NoTokens(wheel', last'.round) /\ wheelFile' = wheel')
     /\ \A r \in Rounds : NoTokens(wheel, r) => NoTokens(wheel', r)]_vars

\* C3 witness: a scan has returned for a round the wheel had keys for.
C3_Witness ==
  /\ last.ev = "mailbox"
  /\ ~crashed
  /\ dialingRounds[last.round] # NoRound
  /\ last.io = "ok"
  /\ Has(trace, "ReceivedCall")
  /\ NoTokens(wheel, last.round)
  /\ wheelFile = wheel

\* C11, as claimed: the phase of a round changes only from Unborn to
\* Configured by a newround event, from Configured to Submitted by a mix
\* event, and from Submitted to Scanned by a mailbox event.
C11_RoundOrder ==
  [][\A r \in Rounds :
       roundPhase'[r] # roundPhase[r]
       => \/ (/\ roundPhase[r] = "Unborn" /\ roundPhase'[r] = "Configured"
              /\ last'.ev = "newround")
          \/ (/\ roundPhase[r] = "Configured" /\ roundPhase'[r] = "Submitted"
              /\ last'.ev = "mix")
          \/ (/\ roundPhase[r] = "Submitted" /\ roundPhase'[r] = "Scanned"
              /\ last'.ev = "mailbox")]_vars

\* C12: a mix event for a round without an entry in the round map reports an
\* application error and does nothing else: no onion is sent, the call queue
\* and every call's sentRound stay as they were, and so does lastDialingRound.
C12_MixNotConfigured ==
  [][(/\ last'.ev = "mix"
      /\ last = NoEvent
      /\ dialingRounds[last'.round] = NoRound)
     => (/\ Ops(trace') = <<"Error">>
         /\ outgoingCalls' = outgoingCalls
         /\ sentRound' = sentRound
         /\ lastDialingRound' = lastDialingRound
         /\ dialingRounds' = dialingRounds
         /\ roundPhase' = roundPhase
         /\ ~crashed')]_vars

\* C12 witness: a mix event with the cached chain's signatures has arrived
\* for a round without an entry while a call was waiting and another round
\* had been submitted.
C12_Witness ==
  /\ last.ev = "mix"
  /\ dialingRounds[last.round] = NoRound
  /\ last.v.MixSettings.RawServiceData.ok
  /\ VerifyMixers(dialingConfig.Inner.MixServers, SigningMessage(last.v.MixSettings),
                  last.v.MixSignatures, 1) = "ok"
  /\ outgoingCalls # <<>>
  /\ lastDialingRound # 0
  /\ lastDialingRound # last.round
  /\ Has(trace, "Error")

\* C13: a newround for a round without an entry that announces the cached
\* hash records an entry for the round that references the cached config; it
\* fetches no chain, notifies nothing, persists nothing and leaves the cached
\* config and hash as they were.
C13_CachedNewRound ==
  [][(/\ last'.ev = "newround"
      /\ last = NoEvent
      /\ dialingRounds[last'.round] = NoRound
      /\ last'.hash = dialingConfigHash)
     => (/\ dialingRounds' = [dialingRounds EXCEPT
                                ![last'.round] = dialingRoundState(last'.round, dialingConfig)]
         /\ trace' = <<>>
         /\ dialingConfig' = dialingConfig
         /\ dialingConfigHash' = dialingConfigHash
         /\ wheelFile' = wheelFile
         /\ ~crashed')]_vars

\* C13 witness: after the client adopted another config, a newround
\* announcing that config's hash has recorded a round with it.
C13_Witness ==
  /\ last.ev = "newround"
  /\ last.outcome = "cached"
  /\ last.hash = dialingConfigHash
  /\ dialingConfigHash # Hash(SignedConfig(1))
  /\ dialingRounds[last.round] = dialingRoundState(last.round, dialingConfig)
  /\ trace = <<>>

\* C14, as claimed: whenever a handler writes the key wheel file, it has
\* written the client state file just before, in the same persistence step.
C14_WheelWithClient ==
  \A i \in 1..Len(trace) :
    trace[i].op = "persistKeywheel" => (i > 1 /\ trace[i - 1].op = "persistClient")

\* what a handler must do with c.mu held, and what it must do without
GuardedOps == {"adopt", "record", "dequeue"}
BlockingOps == {"FetchAndVerifyChain", "fetchMailbox"}
CallbackOps == {"Error", "NewConfig", "SendingCall", "ReceivedCall"}

\* C16, as claimed: a handler holds c.mu whenever it changes the round map,
\* the cached config or the call queue, and does not hold it while it fetches
\* a config chain, downloads a mailbox or calls back into the application.
C16_LockDiscipline ==
  \A i \in 1..Len(trace) :
    /\ trace[i].op \in GuardedOps => trace[i].locked
    /\ trace[i].op \in BlockingOps \cup CallbackOps => ~trace[i].locked

\* the operations of a handler on the key wheel
WheelOps == {"IncomingDialTokens", "SessionKey", "EraseKeys", "persistKeywheel"}

\* C17, as claimed: a handler holds c.mu at every operation on the key wheel.
C17_WheelUnderLock ==
  \A i \in 1..Len(trace) : trace[i].op \in WheelOps => trace[i].locked

\* every call of kind a in tr comes before every call of kind b
Before(tr, a, b) ==
  \A i, j \in 1..Len(tr) : (tr[i].op = a /\ tr[j].op = b) => i < j

\* C18: a newround for a round without an entry that announces another hash
\* than the cached one fetches the chain.  When the chain is fetched and
\* verified, the handler notifies NewConfig, then adopts the new config and
\* hash, then persists, and only then records the round with the new config
\* (it records nothing when persisting fails, which ends the process).  When
\* the fetch fails, it reports an error, records no round and keeps the
\* cached config and hash.
C18_FetchedNewRound ==
  [][(/\ last'.ev = "newround"
      /\ last = NoEvent
      /\ dialingRounds[last'.round] = NoRound
      /\ last'.hash # dialingConfigHash)
     => IF last'.fetchOK
        THEN /\ Count(trace', "NewConfig") = 1
             /\ Count(trace', "adopt") = 1
             /\ Before(trace', "NewConfig", "adopt")
             /\ Before(trace', "adopt", "persistClient")
             /\ Before(trace', "adopt", "persistKeywheel")
             /\ Before(trace', "persistClient", "record")
             /\ Before(trace', "persistKeywheel", "record")
             /\ Before(trace', "adopt", "record")
             /\ clientPaths.client => Has(trace', "persistClient")
             /\ clientPaths.keywheel => Has(trace', "persistKeywheel")
             /\ dialingConfig' = SignedConfig(last'.hash)
             /\ dialingConfigHash' = last'.hash
             /\ IF crashed'
                THEN dialingRounds' = dialingRounds /\ ~Has(trace', "record")
                ELSE /\ Count(trace', "record") = 1
                     /\ dialingRounds' =
                          [dialingRounds EXCEPT
                             ![last'.round] = dialingRoundState(last'.round,
                                                                SignedConfig(last'.hash))]
        ELSE /\ Has(trace', "Error")
             /\ ~Has(trace', "NewConfig")
             /\ dialingRounds' = dialingRounds
             /\ dialingConfig' = dialingConfig
             /\ dialingConfigHash' = dialingConfigHash
             /\ ~crashed']_vars

\* C18 witness: a round has been recorded with a config that was fetched,
\* announced and persisted to both files.
C18_Witness ==
  /\ last.ev = "newround"
  /\ last.outcome = "fetched"
  /\ Ops(trace) = <<"FetchAndVerifyChain", "NewConfig", "adopt", "persistClient",
                    "persistKeywheel", "record">>
  /\ dialingRounds[last.round] = dialingRoundState(last.round, SignedConfig(last.hash))
  /\ dialingConfigHash = last.hash

\* C18 witness of the failing branch: the fetch failed for a round that is
\* still without an entry.
C18_WitnessFetchError ==
  /\ last.ev = "newround"
  /\ last.outcome = "fetcherror"
  /\ dialingRounds[last.round] = NoRound
  /\ last.hash # dialingConfigHash

\* the calls created so far are dequeued in the order of their creation: the
\* first k have left the queue, each with the round it left in, and the others
\* wait in order
QueueInOrder(queue, sent, created) ==
  \E k \in 0..created :
    /\ queue = [i \in 1..(created - k) |-> k + i]
    /\ \A c \in CallIds : (sent[c] # 0) = (c <= k)

\* every mixer of the chain has a signature in v that verifies
AllSignaturesVerify(st, v) ==
  \A i \in 1..Len(st.Config.MixServers) :
    /\ i <= Len(v.MixSignatures)
    /\ Verify(st.Config.MixServers[i].Key, SigningMessage(v.MixSettings), v.MixSignatures[i])

\* C19: calls leave the queue in the order they were enqueued and each at
\* most once; the queue changes only when the application enqueues a call or
\* when a mix event on a configured round whose mixers' signatures all verify
\* takes the call at its head; that call's sentRound becomes the round, and
\* SendingCall is notified of it after that and before the round's one onion
\* is sent.
C19_FifoDequeue ==
  [][/\ QueueInOrder(outgoingCalls, sentRound, nextCall)
     /\ QueueInOrder(outgoingCalls', sentRound', nextCall')
     /\ \A c \in CallIds : sentRound[c] # 0 => sentRound'[c] = sentRound[c]
     /\ (outgoingCalls' # outgoingCalls \/ sentRound' # sentRound)
          => \/ /\ outgoingCalls' = Append(outgoingCalls, nextCall')
                /\ sentRound' = sentRound
                /\ trace' = trace
             \/ /\ outgoingCalls # <<>>
                /\ outgoingCalls' = Tail(outgoingCalls)
                /\ last'.ev = "mix"
                /\ dialingRounds[last'.round] # NoRound
                /\ AllSignaturesVerify(dialingRounds[last'.round], last'.v)
                /\ sentRound' = [sentRound EXCEPT ![Head(outgoingCalls)] = last'.round]
                /\ Args(trace', "sentRound") = {Head(outgoingCalls)}
                /\ Args(trace', "SendingCall") = {Head(outgoingCalls)}
                /\ Count(trace', "SendingCall") = 1
                /\ Count(trace', "Send") = 1
                /\ \A omsg \in Args(trace', "Send") : omsg.Round = last'.round
                /\ Before(trace', "sentRound", "SendingCall")
                /\ Before(trace', "SendingCall", "Send")]_vars

\* C19 witness: the second call has just left the queue, after the first,
\* while none is waiting, and SendingCall was notified of it.
C19_Witness ==
  /\ last.ev = "mix"
  /\ last.call = 2
  /\ sentRound[1] # 0
  /\ sentRound[2] = last.round
  /\ outgoingCalls = <<>>
  /\ Args(trace, "SendingCall") = {2}
  /\ Has(trace, "Send")

\* C20, as claimed: a mix event on a configured round, with fewer, as many or
\* more signatures than the chain has mixers, ends without a crash, either
\* with an application error and no onion or with exactly one onion.
C20_AnySignatureCount ==
  (last.ev = "mix" /\ dialingRounds[last.round] # NoRound)
  => (/\ ~crashed
      /\ \/ (Has(trace, "Error") /\ ~Has(trace, "Send"))
         \/ (~Has(trace, "Error") /\ Count(trace, "Send") = 1))

\* C21, as claimed: a mailbox event for a configured round whose filter
\* cannot be downloaded or cannot be decoded reports an application error,
\* notifies no ReceivedCall and leaves the key wheel and its file as they
\* were: nothing is erased and nothing is persisted.
C21_FailedFilter ==
  [][(/\ last'.ev = "mailbox"
      /\ last = NoEvent
      /\ dialingRounds[last'.round] # NoRound
      /\ last'.io # "ok")
     => (/\ Has(trace', "Error")
         /\ ~Has(trace', "ReceivedCall")
         /\ ~Has(trace', "EraseKeys")
         /\ ~Has(trace', "persistKeywheel")
         /\ wheel' = wheel
         /\ wheelFile' = wheelFile)]_vars

\* the part of C21 about a failed download
C21_FetchError ==
  [][(/\ last'.ev = "mailbox"
      /\ last = NoEvent
      /\ dialingRounds[last'.round] # NoRound
      /\ last'.io = "fetcherr")
     => (/\ Ops(trace') = <<"fetchMailbox", "Error">>
         /\ wheel' = wheel
         /\ wheelFile' = wheelFile
         /\ ~crashed')]_vars

\* C5, as claimed: no two outgoing calls leave the queue in the same round.
C5_OnePerRound ==
  \A c1, c2 \in CallIds :
    (c1 # c2 /\ sentRound[c1] # 0 /\ sentRound[c2] # 0) => sentRound[c1] # sentRound[c2]

\* the calls scanBloomFilter has to announce: one for every token of the
\* wheel that tests positive
ExpectedCalls(w, round, positive) ==
  {[Username |-> f, Intent |-> i, SessionKey |-> <<"sessionkey", f, round>>] :
     <<f, i>> \in {p \in Friends \X (0..(IntentMax - 1)) :
                      w[p[1]] <= round /\ DialToken(p[1], p[2], round) \in positive}}

\* C8: when the filter of a configured round is fetched and decoded, the
\* application receives ReceivedCall once for every token of the wheel that
\* tests positive and for nothing else, with the sender, the intent and the
\* session key of the sender for the round, and before the keys are erased.
C8_ReceivedCalls ==
  [][(/\ last'.ev = "mailbox"
      /\ last = NoEvent
      /\ dialingRounds[last'.round] # NoRound
      /\ last'.io = "ok")
     => (/\ Args(trace', "ReceivedCall") = ExpectedCalls(wheel, last'.round, last'.positive)
         /\ Count(trace', "ReceivedCall")
              = Cardinality(ExpectedCalls(wheel, last'.round, last'.positive))
         /\ \A i, j \in 1..Len(trace') :
              (trace'[i].op = "ReceivedCall" /\ trace'[j].op = "EraseKeys") => i < j)]_vars

\* C8 witness: two tokens of one sender tested positive and the other
\* sender's did not.
C8_Witness ==
  /\ last.ev = "mailbox"
  /\ last.io = "ok"
  /\ Count(trace, "ReceivedCall") = 2
  /\ \E f \in Friends : \A c \in Args(trace, "ReceivedCall") : c.Username = f
  /\ \E f \in Friends, i \in 0..(IntentMax - 1) :
       DialToken(f, i, last.round) \in last.positive

\* the mix message inside a marshalled plaintext
PlainMailbox(plain) == SubSeq(plain, 1, SizeUint32)
PlainToken(plain) == SubSeq(plain, SizeUint32 + 1, Len(plain))

\* C9: a verified mix event that finds the queue empty seals a message with an
\* all-zero token and Mailbox = 0, and every onion sent, with or without a
\* call, has the same length.
C9_CoverTraffic ==
  [][(last'.ev = "mix" /\ last = NoEvent /\ Has(trace', "Send"))
     => \A omsg \in Args(trace', "Send") :
          /\ omsg.Onion.len = SizeUint32 + SizeToken + NumMixers * OnionOverhead
          /\ outgoingCalls = <<>>
               => (/\ PlainToken(omsg.Onion.plain) = ZeroToken
                   /\ PlainMailbox(omsg.Onion.plain) = BE32(0))
          /\ outgoingCalls # <<>> => PlainToken(omsg.Onion.plain) # ZeroToken]_vars

\* C9 witness: an onion of cover traffic has been sent after an onion with a call.
C9_Witness ==
  /\ last.ev = "mix"
  /\ Has(trace, "Send")
  /\ last.call = NoCall
  /\ \E c \in CallIds : sentRound[c] # 0


(***************************************************************************)
(* PKG: the extraction endpoint, one thread per request                    *)
(***************************************************************************)
\* Server.getUser: the error it returns, "" if none
getUserError(s, username, readOK) ==
  IF ~ValidUsername(username) THEN "InvalidUsername"
  ELSE IF readOK /\ ~Registered(s, username) THEN "NotRegistered"
  ELSE IF ~readOK THEN "DatabaseError"
  ELSE ""

\* Server.extract up to the signature check: the error it returns, "" if
\* none, "panic" when the preimage cannot be built
extractChecks_signatureFirst(s, args, readOK) ==
  IF args.Round \notin PKGRounds THEN "RoundNotFound"
  ELSE IF getUserError(s, args.Username, readOK) # "" THEN getUserError(s, args.Username, readOK)
  ELSE IF extractArgsMsg(args) = "panic" THEN "panic"
  ELSE IF ~extractArgsVerify(args, LoginKey(args.Username)) THEN "InvalidSignature"
  ELSE IF Len(args.UserLongTermKey) # SizeKey THEN "InvalidUserLongTermKey"
  ELSE ""

extractChecks(s, args, readOK) ==
  IF args.Round \notin PKGRounds THEN "RoundNotFound"
  ELSE IF Len(args.UserLongTermKey) # SizeKey THEN "InvalidUserLongTermKey"
  ELSE IF getUserError(s, args.Username, readOK) # "" THEN getUserError(s, args.Username, readOK)
  ELSE IF extractArgsMsg(args) = "panic" THEN "panic"
  ELSE IF ~extractArgsVerify(args, LoginKey(args.Username)) THEN "InvalidSignature"
  ELSE ""

\* extractHandler: the arguments it hands to Server.extract
handlerArgs(s, body) == [body EXCEPT !.ServerSigningKey = ServerPublicKey(s)]

\* the reply Server.extract assembles
extractReply(s, args, epk) ==
  LET st == RoundState(s, args.Round)
      id == ValidUsernameToIdentity(args.Username)
      idKeyBytes == <<st.masterPrivateKey[2], st.masterPrivateKey[3]>> \o id
      ctxt == Bytes(SizeKey, epk) \o idKeyBytes \o Bytes(16, epk)
      attestation == [AttestKey |-> st.blsPublicKey, UserIdentity |-> id,
                      UserLongTermKey |-> args.UserLongTermKey]
      idSig == Sign(st.blsPrivateKey, AttestationMarshal(attestation))
      reply == [Round |-> args.Round, Username |-> args.Username,
                EncryptedPrivateKey |-> ctxt, IdentitySig |-> idSig]
  IN [Round |-> reply.Round, Username |-> reply.Username,
      EncryptedPrivateKey |-> reply.EncryptedPrivateKey, IdentitySig |-> reply.IdentitySig,
      Signature |-> Sign(ServerPublicKey(s), extractReplyMsg(reply))]

\* no thread is handing its response over: the response of a call is written
\* out before anything else happens
NoneDone == \A u \in Threads : pkgThreads[u].pc # "done"

\* a request arrives at server s: extractHandler decodes it and Server.extract
\* runs up to the signature check
ExtractStart_audit(t, s, jsonOK, body, readOK) ==
  LET args == handlerArgs(s, body)
      err == IF ~jsonOK THEN "BadRequestJSON" ELSE extractChecks(s, args, readOK)
      audited == jsonOK /\ args.Username \in StoreUsers
      th == [pc |-> IF err = "" THEN "verified" ELSE "done", srv |-> s, args |-> args,
             jsonOK |-> jsonOK, readOK |-> readOK, writeOK |-> TRUE,
             time |-> 0, writes |-> IF audited THEN 1 ELSE 0, err |-> err, reply |-> Nil,
             overwritten |-> FALSE]
  IN
  /\ NoneDone
  /\ pkgThreads[t].pc = "idle"
  /\ pkgThreads' = [pkgThreads EXCEPT ![t] = th]
  /\ pkgDB' = IF audited
              THEN [pkgDB EXCEPT ![s][args.Username] = [Round |-> args.Round, UnixTime |-> now]]
              ELSE pkgDB
  /\ UNCHANGED now
  /\ UNCHANGED dvars

ExtractStart(t, s, jsonOK, body, readOK) ==
  LET args == handlerArgs(s, body)
      err == IF ~jsonOK THEN "BadRequestJSON" ELSE extractChecks(s, args, readOK)
      th == [pc |-> IF err = "" THEN "verified" ELSE "done", srv |-> s, args |-> args,
             jsonOK |-> jsonOK, readOK |-> readOK, writeOK |-> TRUE,
             time |-> 0, writes |-> 0, err |-> err, reply |-> Nil,
             overwritten |-> FALSE]
  IN
  /\ NoneDone
  /\ pkgThreads[t].pc = "idle"
  /\ pkgThreads' = [pkgThreads EXCEPT ![t] = th]
  /\ UNCHANGED <<pkgDB, now>>
  /\ UNCHANGED dvars

\* lastExtraction is built: time.Now() is read
ExtractNow(t) ==
  /\ NoneDone
  /\ pkgThreads[t].pc = "verified"
  /\ pkgThreads' = [pkgThreads EXCEPT ![t].pc = "timed", ![t].time = now]
  /\ UNCHANGED <<pkgDB, now>>
  /\ UNCHANGED dvars

\* srv.db.Update writes the lastExtraction record, or fails
ExtractUpdate_ignoreError(t, writeOK) ==
  LET th == pkgThreads[t]
      rec == [Round |-> th.args.Round, UnixTime |-> th.time]
  IN
  /\ NoneDone
  /\ th.pc = "timed"
  /\ pkgDB' = IF writeOK THEN [pkgDB EXCEPT ![th.srv][th.args.Username] = rec] ELSE pkgDB
  /\ pkgThreads' = [pkgThreads EXCEPT ![t].pc = "written", ![t].writeOK = writeOK,
                                      ![t].writes = IF writeOK THEN th.writes + 1 ELSE th.writes]
  /\ UNCHANGED now
  /\ UNCHANGED dvars

ExtractUpdate(t, writeOK) ==
  LET th == pkgThreads[t]
      rec == [Round |-> th.args.Round, UnixTime |-> th.time]
      others == {u \in Threads \ {t} :
                   /\ pkgThreads[u].pc = "written"
                   /\ pkgThreads[u].srv = th.srv
                   /\ pkgThreads[u].args.Username = th.args.Username}
  IN
  /\ NoneDone
  /\ th.pc = "timed"
  /\ IF writeOK THEN
       /\ pkgDB' = [pkgDB EXCEPT ![th.srv][th.args.Username] = rec]
       /\ pkgThreads' = [u \in Threads |->
                           IF u = t THEN [th EXCEPT !.pc = "written", !.writes = th.writes + 1]
                           ELSE IF u \in others THEN [pkgThreads[u] EXCEPT !.overwritten = TRUE]
                           ELSE pkgThreads[u]]
     ELSE
       /\ pkgThreads' = [pkgThreads EXCEPT ![t].pc = "done", ![t].err = "DatabaseError",
                                           ![t].writeOK = FALSE]
       /\ UNCHANGED pkgDB
  /\ UNCHANGED now
  /\ UNCHANGED dvars

\* the keys are extracted, the reply is signed and returned
ExtractReturn(t, epk) ==
  LET th == pkgThreads[t] IN
  /\ NoneDone
  /\ th.pc = "written"
  /\ pkgThreads' = [pkgThreads EXCEPT ![t].pc = "done",
                                      ![t].reply = extractReply(th.srv, th.args, epk)]
  /\ UNCHANGED <<pkgDB, now>>
  /\ UNCHANGED dvars

\* the response is written and the thread is free for another request
ExtractDone(t) ==
  /\ pkgThreads[t].pc = "done"
  /\ pkgThreads' = [pkgThreads EXCEPT ![t] = IdleThread]
  /\ UNCHANGED <<pkgDB, now>>
  /\ UNCHANGED dvars

\* time passes
Tick ==
  /\ NoneDone
  /\ now < MaxTime
  /\ now' = now + 1
  /\ UNCHANGED <<pkgThreads, pkgDB>>
  /\ UNCHANGED dvars

\* the dialing client does nothing while the PKG is explored
InitPKG ==
  /\ dialingRounds = [r \in Rounds |-> NoRound]
  /\ roundPhase = PhaseOf(dialingRounds)
  /\ dialingConfig = SignedConfig(1)
  /\ dialingConfigHash = Hash(SignedConfig(1))
  /\ outgoingCalls = <<>>
  /\ sentRound = [c \in CallIds |-> 0]
  /\ nextCall = 0
  /\ lastDialingRound = 0
  /\ wheel = [f \in Friends |-> 1]
  /\ wheelFile = wheel
  /\ clientPaths = [client |-> TRUE, keywheel |-> TRUE]
  /\ crashed = FALSE
  /\ last = NoEvent
  /\ trace = <<>>
  /\ PKGInit

\* one request at a time, any request
StartAny ==
  \E s \in Servers, body \in WireRequests, jsonOK \in BOOLEAN, readOK \in BOOLEAN :
    /\ jsonOK \/ (readOK /\ body \in GoodRequests)
    /\ ExtractStart(1, s, jsonOK, body, readOK)

NextExtract ==
  \/ StartAny
  \/ ExtractNow(1)
  \/ \E writeOK \in BOOLEAN : ExtractUpdate(1, writeOK)
  \/ ExtractReturn(1, 1)
  \/ ExtractDone(1)
  \/ Tick

SpecExtract == InitPKG /\ [][NextExtract]_vars

\* several requests at once, all of them from the registered user to its PKG
StartGood ==
  \E t \in Threads, body \in GoodRequests : ExtractStart(t, 1, TRUE, body, TRUE)

NextPKG ==
  \/ StartGood
  \/ \E t \in Threads : ExtractNow(t)
  \/ \E t \in Threads, writeOK \in BOOLEAN : ExtractUpdate(t, writeOK)
  \/ \E t \in Threads : ExtractReturn(t, 1)
  \/ \E t \in Threads : ExtractDone(t)
  \/ Tick

SpecPKG == InitPKG /\ [][NextPKG]_vars


(***************************************************************************)
(* Properties of the PKG                                                   *)
(***************************************************************************)
\* thread t is returning a reply
Replied(t) == pkgThreads[t].pc = "done" /\ pkgThreads[t].reply # Nil

\* the stored lastExtraction record of the caller of thread t
Stored(t) == pkgDB[pkgThreads[t].srv][pkgThreads[t].args.Username]

\* the lastExtraction record of the call of thread t
OwnRecord(t) == [Round |-> pkgThreads[t].args.Round, UnixTime |-> pkgThreads[t].time]

\* C4, as claimed: when Extract returns a reply for an identity and round R,
\* the stored LastExtraction record of the identity is {R, t} with t no later
\* than the time of the return; and a failed write gives DatabaseError and no
\* reply.
C4_Original ==
  \A t \in Threads :
    /\ Replied(t) => (/\ Stored(t).Round = pkgThreads[t].args.Round
                      /\ Stored(t).UnixTime <= now)
    /\ (pkgThreads[t].pc \notin {"idle"} /\ ~pkgThreads[t].writeOK)
         => (pkgThreads[t].err = "DatabaseError" /\ pkgThreads[t].reply = Nil)

\* C4, amended: when Extract returns a reply for an identity and round R, the
\* call has written {R, t} as the LastExtraction record of the identity, with t
\* no later than the time of the return, and the stored record is still
\* {R, t} unless another extraction for the same identity has written its own
\* record since, whose time is no later than the return either; and a failed
\* write gives DatabaseError and no reply.
C4_ExtractionRecorded ==
  \A t \in Threads :
    /\ Replied(t) => (/\ pkgThreads[t].writes = 1
                      /\ pkgThreads[t].time <= now
                      /\ Stored(t).Round \in PKGRounds
                      /\ Stored(t).UnixTime <= now
                      /\ ~pkgThreads[t].overwritten => Stored(t) = OwnRecord(t))
    /\ (pkgThreads[t].pc \notin {"idle"} /\ ~pkgThreads[t].writeOK)
         => (pkgThreads[t].err = "DatabaseError" /\ pkgThreads[t].reply = Nil)

\* C4 witness: an extraction returns its reply, later than it read the
\* clock, with its own record stored, while another extraction of the same
\* user is under way.
C4_Witness ==
  \E t, u \in Threads :
    /\ t # u
    /\ Replied(t)
    /\ Stored(t) = OwnRecord(t)
    /\ now > pkgThreads[t].time
    /\ pkgThreads[u].pc = "timed"

\* m starts with the bytes p
StartsWith(m, p) == Len(m) >= Len(p) /\ SubSeq(m, 1, Len(p)) = p

\* the attestation of identity id and key ltk under the key of a round of a server
AttestationOf(s, round, id, ltk) ==
  AttestationMarshal([AttestKey |-> RoundState(s, round).blsPublicKey, UserIdentity |-> id,
                      UserLongTermKey |-> ltk])

\* the preimage m of an attestation starts with a separator of its own: some
\* first bytes that every attestation starts with, whatever key attests, and
\* that are not the first bytes of the other types' separators
AttestationSeparated(m, id, ltk) ==
  \E n \in 1..Len(m) :
    /\ \A s \in Servers, round \in PKGRounds :
         StartsWith(AttestationOf(s, round, id, ltk), SubSeq(m, 1, n))
    /\ ~StartsWith(ExtractArgsPrefix, SubSeq(m, 1, n))
    /\ ~StartsWith(ExtractReplyPrefix, SubSeq(m, 1, n))

\* C15, as claimed: the preimages of the request, of the reply and of the
\* attestation of an extraction differ from one another, and each starts with
\* the domain separator of its type.
C15_DomainSeparation ==
  \A t \in Threads :
    Replied(t) =>
      LET a == extractArgsMsg(pkgThreads[t].args)
          r == pkgThreads[t].reply.Signature.msg
          m == pkgThreads[t].reply.IdentitySig.msg
      IN /\ a # r /\ a # m /\ r # m
         /\ StartsWith(a, ExtractArgsPrefix)
         /\ StartsWith(r, ExtractReplyPrefix)
         /\ AttestationSeparated(m, ValidUsernameToIdentity(pkgThreads[t].args.Username),
                                 pkgThreads[t].args.UserLongTermKey)

\* the checks of Extract in the order of the claim, each with its error
ChecksInOrder(th) ==
  <<[failed |-> th.args.Round \notin PKGRounds, err |-> "RoundNotFound"],
    [failed |-> Len(th.args.UserLongTermKey) # SizeKey, err |-> "InvalidUserLongTermKey"],
    [failed |-> ~ValidUsername(th.args.Username), err |-> "InvalidUsername"],
    [failed |-> ~th.readOK, err |-> "DatabaseError"],
    [failed |-> ~Registered(th.srv, th.args.Username), err |-> "NotRegistered"],
    [failed |-> th.args.ReturnKey # Nil
                  /\ th.args.Signature
                       # Sign(LoginKey(th.args.Username),
                              ExtractArgsPrefix \o ServerPublicKey(th.srv) \o BE32(th.args.Round)
                              \o ValidUsernameToIdentity(th.args.Username)
                              \o th.args.ReturnKey \o th.args.UserLongTermKey),
     err |-> "InvalidSignature"],
    [failed |-> ~th.writeOK, err |-> "DatabaseError"]>>

\* the error of the first check that fails, "" if none does
FirstFailure(checks) ==
  LET failing == {i \in 1..Len(checks) : checks[i].failed} IN
  IF failing = {} THEN ""
  ELSE checks[CHOOSE i \in failing : \A j \in failing : i <= j].err

NoWriteErrors ==
  {"RoundNotFound", "InvalidUserLongTermKey", "InvalidUsername", "NotRegistered",
   "InvalidSignature"}

\* C7: a call of Extract that returns a reply has made exactly one write to
\* the store, to the LastExtraction record of the caller; a call that returns
\* RoundNotFound, InvalidUserLongTermKey, InvalidUsername, NotRegistered or
\* InvalidSignature has made none and leaves the store as it was.
C7_OneWrite ==
  [][\A t \in Threads :
       /\ (pkgThreads'[t].pc = "done" /\ pkgThreads'[t].reply # Nil)
            => pkgThreads'[t].writes = 1
       /\ (pkgThreads'[t].pc = "done" /\ pkgThreads[t].pc = "idle"
             /\ pkgThreads'[t].err \in NoWriteErrors)
            => (pkgThreads'[t].writes = 0 /\ pkgDB' = pkgDB)
       /\ (pkgThreads[t].pc # "idle" /\ pkgThreads'[t].pc # "idle"
             /\ pkgThreads'[t].writes # pkgThreads[t].writes)
            => (/\ pkgThreads'[t].writes = pkgThreads[t].writes + 1
                /\ \A s \in Servers, u \in StoreUsers :
                     (s # pkgThreads[t].srv \/ u # pkgThreads[t].args.Username)
                       => pkgDB'[s][u] = pkgDB[s][u])
       /\ (pkgThreads[t].pc = "idle" => pkgThreads'[t].pc = "idle" \/ pkgThreads'[t].writes = 0)
       /\ (pkgThreads'[t].pc # "idle" /\ pkgThreads[t].pc # "idle"
             /\ pkgThreads'[t].writes = pkgThreads[t].writes)
            => pkgDB' = pkgDB]_vars

\* C7 witness: after a successful extraction changed the store, a call has
\* returned InvalidSignature.
C7_Witness ==
  \E t \in Threads :
    /\ pkgThreads[t].pc = "done"
    /\ pkgThreads[t].err = "InvalidSignature"
    /\ pkgThreads[t].writes = 0
    /\ pkgDB[pkgThreads[t].srv][pkgThreads[t].args.Username] # NoRecord

\* the server key inside the message a signature was made over
SignedServerKey(sig) ==
  SubSeq(sig.msg, Len(ExtractArgsPrefix) + 1, Len(ExtractArgsPrefix) + SizeKey)

\* thread t has accepted the signature of its request
Accepted(t) == pkgThreads[t].pc # "idle" /\ pkgThreads[t].jsonOK /\ pkgThreads[t].err = ""

\* C10: a server accepts a request only when the signed message carries the
\* server's own public key: the same bytes signed for the other server are
\* rejected.
C10_ServerBinding ==
  \A t \in Threads :
    Accepted(t)
    => (/\ Len(pkgThreads[t].args.Signature.msg)
             = Len(ExtractArgsPrefix) + SizeKey + SizeUint32 + SizeIdentity + SizeKey + SizeKey
        /\ SignedServerKey(pkgThreads[t].args.Signature) = ServerPublicKey(pkgThreads[t].srv))

\* C10 witness: server 2 has rejected, for its signature, a request that the
\* registered user signed for server 1 and that fails no other check.
C10_Witness ==
  \E t \in Threads :
    /\ pkgThreads[t].pc = "done"
    /\ pkgThreads[t].srv = 2
    /\ pkgThreads[t].err = "InvalidSignature"
    /\ pkgThreads[t].args.Signature.key = LoginKey("alice")
    /\ pkgThreads[t].args.Username = "alice"
    /\ SignedServerKey(pkgThreads[t].args.Signature) = ServerPublicKey(1)

====
